---- MODULE Spec2Model ----
(***************************************************************************)
(* Model of common.api.viewsets.CommonModelViewSet: the compilation of a   *)
(* request's query parameters into a queryset (get_queryset), its caller   *)
(* list, and the parameter cache shared by every request.                  *)
(*                                                                         *)
(* Strings stand for the raw query-string values.  Python's None, True and *)
(* False are the strings "None", "True" and "False" wherever a value is    *)
(* tri-state, so that every comparison is between values of one type.      *)
(* One Tick is one second of the cache's clock.                            *)
(***************************************************************************)
EXTENDS Integers, Sequences, FiniteSets, TLC

(***************************************************************************)
(* Bounds of the model.                                                    *)
(***************************************************************************)
\* Largest number of parameters of one request of the compilation model.
MaxParams == 3
\* Largest number of parameters, besides the cache token, of one request of
\* the cache model.
MaxCacheParams == 2
\* Largest number of parameters, besides the cache token, of one request of
\* the concurrency model.
MaxConcurrentParams == 1
\* Largest number of parameters, besides the cache token, of one request of
\* the stored-parameter model.
MaxSharedParams == 2
\* Largest number of parameters, besides the cache token, of one request of
\* the model of a request that follows another.
MaxFollowingParams == 2
\* Largest number of user accounts.
MaxUsers == 2
\* Number of threads that call a decorated class, and largest number of calls
\* of one thread.
MaxThreads == 2
MaxCalls == 2

None == "None"
True == "True"
False == "False"

(***************************************************************************)
(* Parameter bundles: Python dicts from parameter name to raw value.       *)
(***************************************************************************)
EmptyBundle == <<>>

Get(bundle, key, default) == IF key \in DOMAIN bundle THEN bundle[key] ELSE default

Pop(bundle, key) == [k \in DOMAIN bundle \ {key} |-> bundle[k]]

\* dict.update: the entries of `other` are written over those of `bundle`.
DictUpdate(bundle, other) ==
    [k \in DOMAIN bundle \cup DOMAIN other |->
        IF k \in DOMAIN other THEN other[k] ELSE bundle[k]]

Restrict(bundle, keys) == [k \in DOMAIN bundle \cap keys |-> bundle[k]]

(***************************************************************************)
(* Names imported from common.api.utils, and the paginator's parameter     *)
(* names.                                                                  *)
(***************************************************************************)
AGGREGATES == {"sum", "count"}

RESERVED_QUERY_PARAMS ==
    {"fields", "simple", "all", "meta", "cache", "timeout", "filters", "order_by",
     "distinct", "group_by", "silent", "display"} \cup AGGREGATES

\* Default time-to-live of a cache entry, in seconds.
CACHE_TIMEOUT == 2

\* 'format' and the paginator's page and page-size parameters.
default_reserved_query_params(paginator) ==
    {"format"} \cup (IF paginator THEN {"page", "page_size"} ELSE {})

\* Mutant of reserved_query_params: RESERVED_QUERY_PARAMS is left out.
reserved_query_params_default_only(paginator) ==
    default_reserved_query_params(paginator)

\* Line 109: the default reserved keys and RESERVED_QUERY_PARAMS.
reserved_query_params(paginator) ==
    default_reserved_query_params(paginator) \cup RESERVED_QUERY_PARAMS

(***************************************************************************)
(* str_to_bool, on the raw values of the model.                            *)
(***************************************************************************)
TRUE_VALUES == {"true", "yes", "y", "1", "vrai", "oui", "o"}
FALSE_VALUES == {"false", "no", "n", "0", "faux", "non", "n"}

\* str.lower on the values of the model.
Lower(value) ==
    CASE value = "True" -> "true"
      [] value = "TRUE" -> "true"
      [] value = "False" -> "false"
      [] OTHER -> value

\* Mutant of str_to_bool: the value is compared as it is written.
str_to_bool_case_sensitive(value) ==
    IF value = None \/ value \notin TRUE_VALUES \cup FALSE_VALUES
    THEN None
    ELSE IF value \in TRUE_VALUES THEN True ELSE False

str_to_bool(value) ==
    IF value = None \/ Lower(value) \notin TRUE_VALUES \cup FALSE_VALUES
    THEN None
    ELSE IF Lower(value) \in TRUE_VALUES THEN True ELSE False

\* Python truth of a str_to_bool result.
Truthy(b) == b = True

(***************************************************************************)
(* The raw values of the model and how Python reads them.                  *)
(***************************************************************************)
\* int(value): the integers of the model; any other value raises ValueError.
IsInt(value) == value \in {"0", "1", "2"}

IntOf(value) ==
    CASE value = "0" -> 0
      [] value = "1" -> 1
      [] value = "2" -> 2

\* str(CACHE_TIMEOUT), the default handed to int() when no timeout is given.
CacheTimeoutDefault == "2"

\* value.split(','), on the values of the model.
Split(value) ==
    CASE value = "" -> <<>>
      [] value = "a,b" -> <<"a", "b">>
      [] OTHER -> <<value>>

\* value.startswith('[') and value.endswith(']')
IsBracketed(value) == value \in {"[b]"}

\* value[1:-1]
Unbracket(value) == CASE value = "[b]" -> "b" [] OTHER -> value

\* key.startswith('@'), key.startswith('-') and key[1:]
StartsWithAt(key) == key \in {"@all"}
StartsWithMinus(key) == key \in {"-b", "-a"}
DropFirst(key) ==
    CASE key = "@all" -> "all"
      [] key = "-b" -> "b"
      [] key = "-a" -> "a"
      [] OTHER -> key

\* fields.replace('.', '__')
ReplaceDots(value) ==
    CASE value = "rel.c" -> "rel__c"
      [] value = "rel.zz" -> "rel__zz"
      [] OTHER -> value

\* For one field path: '__'.join(related) of *related, field_name = field.split('__'),
\* "" when the path has one segment.
RelatedOf(field) ==
    CASE field = "rel__c" -> "rel"
      [] field = "rel__zz" -> "rel"
      [] OTHER -> ""

(***************************************************************************)
(* The query builder.  A queryset is the record of what has been composed  *)
(* onto the base collection; nothing is executed here.                     *)
(***************************************************************************)
\* The viewset's base collection: super().get_queryset().
BaseQuerySet ==
    [select_related |-> {"owner"}, prefetch_related |-> {"tags"}, only |-> {},
     filter |-> {}, exclude |-> {}, q |-> {}, values |-> <<>>, annotate |-> {},
     distinct |-> FALSE, distinct_fields |-> <<>>, order_by |-> <<>>]

\* The prefetch lookups the viewset declares as metadata (self.metadatas).
ViewMetadatas == {"metadata"}

\* The primary key of the base collection's model.
PkName == "id"

\* Field paths the model's schema resolves; any other path is rejected by the
\* query builder (FieldError) where the builder resolves it.
KnownFields == {"id", "a", "b", "type", "amount", "rel__c"}

Range(seq) == {seq[i] : i \in DOMAIN seq}

\* common.api.utils.url_value(key, value): the coerced value, as <<kind, text>>.
\* A field reference F(...) passes through; "?" stands for a raw value that
\* cannot be coerced to the field's type, for which url_value raises.
UrlValueRaises(key, value) == value = <<"str", "?">>

url_value(key, value) == IF value[1] = "F" THEN value ELSE <<"value", value[2]>>

\* common.api.utils.parse_filters(others) raises on a malformed expression.
ParseFiltersRaises(others) == others = "(("

\* The records the plans are read on: the values of the columns a and b.
Records == [a : {"1", "2"}, b : {"1", "2"}]

\* Whether a record satisfies a clause <<field, kind, text>>: the column equals
\* the value, or the column text names for a field reference.
Satisfies(record, clause) ==
    /\ clause[1] \in DOMAIN record
    /\ IF clause[2] = "F"
       THEN clause[3] \in DOMAIN record /\ record[clause[1]] = record[clause[3]]
       ELSE record[clause[1]] = clause[3]

\* Whether the plan keeps a record: queryset.filter(**filters) keeps the
\* records that satisfy every clause, and each queryset.exclude(**excludes)
\* call removes the records that satisfy all the clauses of that call.
Keeps(queryset, record) ==
    /\ \A clause \in queryset.filter : Satisfies(record, clause)
    /\ \A excludes \in queryset.exclude :
          ~(\A clause \in excludes : Satisfies(record, clause))

\* The rows of the base collection that aggregates are computed on.
Rows ==
    {[id |-> 1, a |-> "1", b |-> "1", type |-> "a", amount |-> 10],
     [id |-> 2, a |-> "2", b |-> "2", type |-> "a", amount |-> 20],
     [id |-> 3, a |-> "2", b |-> "2", type |-> "b", amount |-> 30]}

\* The number an aggregate function reads in a column of a row.
ColumnNumber(row, field) == IF field = "amount" THEN row.amount ELSE IntOf(row[field])

RECURSIVE Total(_, _)
Total(rows, field) ==
    IF rows = {}
    THEN 0
    ELSE LET row == CHOOSE r \in rows : TRUE IN
         ColumnNumber(row, field) + Total(rows \ {row}, field)

\* AGGREGATES[aggregate](field) over rows: Sum and Count of the column.
Aggregate(aggregate, field, rows) ==
    IF aggregate = "count" THEN Cardinality(rows) ELSE Total(rows, field)

\* queryset.aggregate(**aggregations): each alias with its value over the rows
\* the queryset keeps.
AggregateMap(queryset, aggregations) ==
    {<<a[1], Aggregate(a[2], a[3], {row \in Rows : Keeps(queryset, row)})>> :
        a \in aggregations}

\* The columns of a row, as a record over `fields`.
Project(row, fields) == [f \in fields \cap DOMAIN row |-> row[f]]

\* The columns a grouped queryset groups its rows by: the columns of values()
\* and, as the query builder adds them to the GROUP BY (or to the SELECT
\* DISTINCT) clause, the columns of order_by() that are no aggregate alias.
GroupColumns(queryset) ==
    Range(queryset.values)
        \cup (Range(queryset.order_by) \ {a[1] : a \in queryset.annotate})

\* The rows a grouped queryset returns, values(...).annotate(...) or
\* values(...).distinct(): one per group, as the group it comes from, the
\* columns of values() and each aggregate under its alias.
Execute(queryset) ==
    LET kept == {row \in Rows : Keeps(queryset, row)}
        groups == {Project(row, GroupColumns(queryset)) : row \in kept}
        Members(group) ==
            {row \in kept : Project(row, GroupColumns(queryset)) = group}
    IN  {[group |-> group,
          columns |-> Project(group, Range(queryset.values)),
          aggregates |-> {<<a[1], Aggregate(a[2], a[3], Members(group))>> :
                             a \in queryset.annotate}] : group \in groups}

\* queryset.ordered: an explicit ordering (the model declares no default one).
Ordered(queryset) == queryset.order_by # <<>>

(***************************************************************************)
(* do_filter, lines 183-212: the filter stage, as the closure computes it  *)
(* from url_params.  The result is the returned queryset, the options, and *)
(* whether the ValidationError "filters: ..." was raised.                   *)
\* Mutant of DoFilter: a failure leaves the collection as the stage found it.
DoFilterDropsOnFailure(url_params, paginator, silent, options, queryset) ==
    LET reserved == reserved_query_params(paginator)
        keys == {k \in DOMAIN url_params : k \notin reserved}
        Value(k) == IF IsBracketed(url_params[k])
                    THEN <<"F", Unbracket(url_params[k])>>
                    ELSE <<"str", url_params[k]>>
        Name(k) == IF StartsWithAt(k) THEN DropFirst(k) ELSE k
        ex == {k \in keys : StartsWithMinus(Name(k))}
        Clause(field, k) == <<field, url_value(field, Value(k))[1], url_value(field, Value(k))[2]>>
        excludes == {Clause(DropFirst(Name(k)), k) : k \in ex}
        filters == {Clause(Name(k), k) : k \in keys \ ex}
        coercion_raises ==
            \/ \E k \in ex : UrlValueRaises(DropFirst(Name(k)), Value(k))
            \/ \E k \in keys \ ex : UrlValueRaises(Name(k), Value(k))
        others == Get(url_params, "filters", "")
        filtered == IF filters # {}
                    THEN [queryset EXCEPT !.filter = @ \cup filters] ELSE queryset
        excluded == IF excludes # {}
                    THEN [filtered EXCEPT !.exclude = @ \cup {excludes}] ELSE filtered
        parsed == IF others # ""
                  THEN [excluded EXCEPT !.q = @ \cup {others}] ELSE excluded
        \* The queryset local at the point where the exception, if any, is raised.
        raised == coercion_raises \/ (others # "" /\ ParseFiltersRaises(others))
        at_raise == queryset
    IN  IF ~raised
        THEN [queryset |-> parsed,
              options |-> IF filters # {} \/ excludes # {} \/ others # ""
                          THEN [options EXCEPT !.filters = True] ELSE options,
              raised |-> FALSE]
        ELSE IF ~silent
        THEN [queryset |-> at_raise, options |-> options, raised |-> TRUE]
        ELSE [queryset |-> at_raise,
              options |-> [options EXCEPT !.filters = False],
              raised |-> FALSE]

(***************************************************************************)
DoFilter(url_params, paginator, silent, options, queryset) ==
    LET reserved == reserved_query_params(paginator)
        keys == {k \in DOMAIN url_params : k \notin reserved}
        Value(k) == IF IsBracketed(url_params[k])
                    THEN <<"F", Unbracket(url_params[k])>>
                    ELSE <<"str", url_params[k]>>
        Name(k) == IF StartsWithAt(k) THEN DropFirst(k) ELSE k
        ex == {k \in keys : StartsWithMinus(Name(k))}
        Clause(field, k) == <<field, url_value(field, Value(k))[1], url_value(field, Value(k))[2]>>
        excludes == {Clause(DropFirst(Name(k)), k) : k \in ex}
        filters == {Clause(Name(k), k) : k \in keys \ ex}
        coercion_raises ==
            \/ \E k \in ex : UrlValueRaises(DropFirst(Name(k)), Value(k))
            \/ \E k \in keys \ ex : UrlValueRaises(Name(k), Value(k))
        others == Get(url_params, "filters", "")
        filtered == IF filters # {}
                    THEN [queryset EXCEPT !.filter = @ \cup filters] ELSE queryset
        excluded == IF excludes # {}
                    THEN [filtered EXCEPT !.exclude = @ \cup {excludes}] ELSE filtered
        parsed == IF others # ""
                  THEN [excluded EXCEPT !.q = @ \cup {others}] ELSE excluded
        \* The queryset local at the point where the exception, if any, is raised.
        raised == coercion_raises \/ (others # "" /\ ParseFiltersRaises(others))
        at_raise == IF coercion_raises THEN queryset ELSE excluded
    IN  IF ~raised
        THEN [queryset |-> parsed,
              options |-> IF filters # {} \/ excludes # {} \/ others # ""
                          THEN [options EXCEPT !.filters = True] ELSE options,
              raised |-> FALSE]
        ELSE IF ~silent
        THEN [queryset |-> at_raise, options |-> options, raised |-> TRUE]
        ELSE [queryset |-> at_raise,
              options |-> [options EXCEPT !.filters = False],
              raised |-> FALSE]

(***************************************************************************)
(* State.                                                                  *)
(*   cache    the shared parameter cache (django.core.cache), one entry    *)
(*            per token: the stored bundle, the timeout it was set with    *)
(*            (0: no expiry, -1: no entry) and its age in seconds;         *)
(*   history  per token, what the cache.set calls did: the timeout and age *)
(*            of the latest call, and of the call that created the entry;  *)
(*   views    one record per view instance (one per request): the request, *)
(*            the attributes of the view, the position and the locals of   *)
(*            the running get_queryset, and what the calls returned.       *)
(***************************************************************************)
VARIABLES cache, history, views, accounts, decorated

vars == <<cache, history, views, accounts, decorated>>

Tokens == {"T1", "T2"}

Views == {1, 2}

NoEntry == [value |-> EmptyBundle, timeout |-> -1, age |-> 0]

NoHistory ==
    [value |-> EmptyBundle, timeout |-> -1, age |-> 0, first_timeout |-> -1, first_age |-> 0]

\* An entry that cache.get still returns.
Live(entry) == entry.timeout = 0 \/ (entry.timeout > 0 /\ entry.age < entry.timeout)

\* cache.get(CACHE_PREFIX + cache_key, {})
cache_get(entry) == IF Live(entry) THEN entry.value ELSE EmptyBundle

\* Mutant of cache_set: a live entry keeps the expiry it has.
cache_set_keeps_expiry(entry, value, timeout) ==
    IF Live(entry)
    THEN [entry EXCEPT !.value = value]
    ELSE [value |-> value, timeout |-> timeout, age |-> 0]

\* Mutant of cache_set: the bundle is merged into the one the entry holds.
cache_set_merges(entry, value, timeout) ==
    [value |-> DictUpdate(entry.value, value), timeout |-> timeout, age |-> 0]

\* Mutant of cache_set: the write is dropped.
cache_set_dropped(entry, value, timeout) == entry

\* cache.set(CACHE_PREFIX + cache_key, value, timeout=cache_timeout), where a
\* timeout of None (no expiry) is written 0.
cache_set(entry, value, timeout) == [value |-> value, timeout |-> timeout, age |-> 0]

\* options as get_queryset creates it (line 102), with the cache part unset.
InitOptions ==
    [aggregates |-> None, distinct |-> None, filters |-> None, order_by |-> None,
     cached |-> FALSE, cache_data |-> EmptyBundle,
     raw_url |-> EmptyBundle, cache_url |-> EmptyBundle]

NoError == [set |-> FALSE, tags |-> <<>>]

\* What a call returned or raised.  kind is "QuerySet", "dict" (the scalar
\* aggregate map), "payload" (a base collection that is no QuerySet), "None",
\* "ValidationError", or the class of another exception; tags are the stage
\* tags of a ValidationError's message, outermost first.
Result(kind, queryset, aggregates, options, tags) ==
    [kind |-> kind, queryset |-> queryset, aggregates |-> aggregates,
     options |-> options, tags |-> tags]

NoResult == Result("unset", BaseQuerySet, {}, InitOptions, <<>>)

Exceptions == {"ValidationError", "ValueError", "TypeError"}

\* What history held of the token when the view read the cache.
NoSeen == NoHistory

\* A view instance as the framework constructs it for a request.
NewView(params, base, paginator) ==
    [params |-> params, base |-> base, paginator |-> paginator,
     pc |-> "idle", call |-> "none",
     url_params |-> EmptyBundle, cache_key |-> "", cache_params |-> EmptyBundle,
     new_cache_params |-> EmptyBundle, options |-> InitOptions,
     queryset |-> BaseQuerySet,
     queryset_error |-> NoError, attached |-> FALSE, additional_data |-> InitOptions,
     ret |-> NoResult, response |-> NoResult,
     trace |-> <<>>, pre |-> BaseQuerySet, failed |-> "", seen |-> NoSeen,
     prev |-> NoResult, seen_expired |-> FALSE,
     merged |-> EmptyBundle, paginated |-> FALSE, serializer |-> "",
     has_additional_data |-> paginator, empty |-> FALSE]

\* The view of a request: its paginator, when it has one, is the framework's,
\* which has an additional_data attribute, or another paginator class of
\* rest_framework, which has none.
\* Its base collection may be one whose query compiles to an empty result
\* set (a queryset filtered on an empty list of keys).
ViewOf(r) ==
    [NewView(r.params, r.base, r.paginator) EXCEPT
        !.has_additional_data = r.has_additional_data, !.empty = r.empty]

NoView == [NewView(EmptyBundle, "QuerySet", FALSE) EXCEPT !.pc = "unborn"]

\* The locals of get_queryset are gone once it returns.
DropLocals(self) ==
    [self EXCEPT !.url_params = EmptyBundle, !.cache_key = "",
                 !.cache_params = EmptyBundle, !.new_cache_params = EmptyBundle,
                 !.options = InitOptions, !.queryset = BaseQuerySet,
                 !.pre = BaseQuerySet, !.seen = NoSeen]

(***************************************************************************)
(* list, lines 73-83, around the get_queryset calls it makes: the view     *)
(* after get_queryset hands `result` to its caller.                        *)
(***************************************************************************)
Return(self, result) ==
    LET done == [DropLocals(self) EXCEPT !.ret = result, !.merged = self.url_params] IN
    CASE self.call = "list" ->
            IF result.kind \in Exceptions
            THEN [done EXCEPT !.pc = "idle", !.call = "none", !.response = result]
            ELSE IF result.kind # "QuerySet"
            THEN [done EXCEPT !.pc = "idle", !.call = "none",
                              !.response = [result EXCEPT !.kind = "Response"]]
            ELSE [done EXCEPT !.pc = "begin", !.call = "list_super"]
      [] self.call = "list_super" ->
            IF result.kind \in Exceptions
            THEN [done EXCEPT !.pc = "idle", !.call = "none", !.response = result]
            ELSE [done EXCEPT !.pc = "render"]
      [] OTHER -> [done EXCEPT !.pc = "idle", !.call = "none"]

\* Mutant of RaiseValidationError: the error is raised and not recorded.
RaiseValidationErrorUnrecorded(self, tags) ==
    Return(self, Result("ValidationError", self.queryset, {}, self.options, tags))

\* except ValidationError as e: self.queryset_error = e; raise e  (lines 286-288)
RaiseValidationError(self, tags) ==
    Return([self EXCEPT !.queryset_error = [set |-> TRUE, tags |-> tags]],
           Result("ValidationError", self.queryset, {}, self.options, tags))

\* An exception that is no ValidationError leaves get_queryset as it is.
RaiseOther(self, class) ==
    Return(self, Result(class, self.queryset, {}, self.options, <<>>))

\* Mutant of Silent: the silent parameter is not read.
SilentIgnored(self) == FALSE

\* silent = str_to_bool(url_params.get('silent', None))  (line 139)
Silent(self) == Truthy(str_to_bool(Get(self.url_params, "silent", None)))

\* A stage body starts: the trace gains the stage, the queryset it enters with
\* is kept, and no failure is recorded yet.
Enter(self, stage) ==
    [self EXCEPT !.trace = Append(@, stage), !.pre = self.queryset, !.failed = ""]

\* Mutant of Begin: get_queryset without the test of queryset_error.
BeginWithoutLatch(self, call) ==
    LET s == [self EXCEPT !.call = call, !.trace = <<>>, !.pre = BaseQuerySet,
                          !.failed = "", !.seen = NoSeen, !.seen_expired = FALSE] IN
    IF self.base # "QuerySet"
    THEN Return(s, Result("payload", BaseQuerySet, {}, InitOptions, <<>>))
    ELSE [s EXCEPT !.options = InitOptions,
                   !.queryset = BaseQuerySet,
                   !.url_params = Pop(self.params, "cache"),
                   !.cache_key = Get(self.params, "cache", ""),
                   !.pc = IF Get(self.params, "cache", "") # "" THEN "cache_get" ELSE "fields"]

(***************************************************************************)
(* get_queryset, lines 91-112: the error latch, the base collection, the   *)
(* locals.                                                                 *)
(***************************************************************************)
\* Mutant of Begin: the base collection is taken for a QuerySet whatever it is.
BeginAnyBase(self, call) ==
    LET s == [self EXCEPT !.call = call, !.trace = <<>>, !.pre = BaseQuerySet,
                          !.failed = "", !.seen = NoSeen, !.seen_expired = FALSE] IN
    IF self.queryset_error.set
    THEN Return(s, Result("None", BaseQuerySet, {}, InitOptions, <<>>))
    ELSE [s EXCEPT !.options = InitOptions,
                   !.queryset = BaseQuerySet,
                   !.url_params = Pop(self.params, "cache"),
                   !.cache_key = Get(self.params, "cache", ""),
                   !.pc = IF Get(self.params, "cache", "") # "" THEN "cache_get" ELSE "fields"]

Begin(self, call) ==
    LET s == [self EXCEPT !.call = call, !.trace = <<>>, !.pre = BaseQuerySet,
                          !.failed = "", !.seen = NoSeen, !.seen_expired = FALSE] IN
    IF self.queryset_error.set
    THEN Return(s, Result("None", BaseQuerySet, {}, InitOptions, <<>>))
    ELSE IF self.base # "QuerySet"
    THEN Return(s, Result("payload", BaseQuerySet, {}, InitOptions, <<>>))
    ELSE [s EXCEPT !.options = InitOptions,
                   !.queryset = BaseQuerySet,
                   !.url_params = Pop(self.params, "cache"),
                   !.cache_key = Get(self.params, "cache", ""),
                   !.pc = IF Get(self.params, "cache", "") # "" THEN "cache_get" ELSE "fields"]

(***************************************************************************)
(* The cache part of get_queryset.  The read (line 115) and the write      *)
(* (line 125) are two steps: no lock is held between them.                 *)
(***************************************************************************)
\* Mutant of MergedParams: the two updates in the other order, so that the
\* stored value wins on a key of both sides.
MergedParamsStoredWins(cache_params, url_params) ==
    DictUpdate(DictUpdate(EmptyBundle, url_params), cache_params)

\* Mutant of MergedParams: the stored bundle is left out of the merge.
MergedParamsRequestOnly(cache_params, url_params) == url_params

\* Lines 116-119: new_url_params, the stored bundle updated with the request's.
MergedParams(cache_params, url_params) ==
    DictUpdate(DictUpdate(EmptyBundle, cache_params), url_params)

\* Mutant of NewCacheParams: every merged parameter is stored again.
NewCacheParamsAll(url_params, paginator) == url_params

\* Line 120: what is stored again, the merged parameters but the default
\* reserved ones.
NewCacheParams(url_params, paginator) ==
    Restrict(url_params, DOMAIN url_params \ default_reserved_query_params(paginator))

\* Lines 115-120: the stored bundle, overlaid with the request's parameters.
CacheGet(v) ==
    LET self == views[v]
        cache_params == cache_get(cache[self.cache_key])
        url_params == MergedParams(cache_params, self.url_params)
        new_cache_params == NewCacheParams(url_params, self.paginator)
    IN  /\ self.pc = "cache_get"
        /\ views' = [views EXCEPT ![v] =
              [self EXCEPT !.cache_params = cache_params,
                           !.url_params = url_params,
                           !.new_cache_params = new_cache_params,
                           !.trace = Append(@, "cache_get"),
                           !.seen = history[self.cache_key],
                           !.seen_expired = history[self.cache_key].timeout > 0
                              /\ history[self.cache_key].age >=
                                    history[self.cache_key].timeout,
                           !.pc = "cache_set"]]
        /\ UNCHANGED <<cache, history, accounts, decorated>>

\* What history keeps of a cache.set call on an entry.
Written(entry, past, value, timeout) ==
    IF Live(entry)
    THEN [past EXCEPT !.value = value, !.timeout = timeout, !.age = 0]
    ELSE [value |-> value, timeout |-> timeout, age |-> 0,
          first_timeout |-> timeout, first_age |-> 0]

\* Lines 127-134: the two URLs, each as the parameter bundle of its query
\* string.  Both start with ?cache=<cache_key>; the merged parameters are
\* appended, all of them to plain_url and the default reserved ones to
\* cache_url.
cache_url(cache_key, url_params, paginator) ==
    DictUpdate([cache |-> cache_key],
               Restrict(url_params,
                        DOMAIN url_params \cap default_reserved_query_params(paginator)))

plain_url(cache_key, url_params) == DictUpdate([cache |-> cache_key], url_params)

\* Lines 121-136: the write of the merged bundle, with the timeout of the
\* merged parameters.  int() of a timeout that is no integer raises ValueError
\* before the write; a timeout of 0 becomes None, the entry is written without
\* expiry and timedelta(seconds=None) then raises TypeError.
CacheSet(v) ==
    LET self == views[v]
        raw == Get(self.url_params, "timeout", CacheTimeoutDefault)
        popped == [self EXCEPT !.url_params = Pop(@, "timeout")]
        cache_timeout == IntOf(raw)
        noted == [popped EXCEPT !.trace = Append(@, "cache_set")]
        with_urls(s) == [s EXCEPT !.options.cached = TRUE,
                                  !.options.raw_url =
                                      plain_url(self.cache_key, s.url_params),
                                  !.options.cache_url =
                                      cache_url(self.cache_key, s.url_params,
                                                self.paginator),
                                  !.options.cache_data = self.new_cache_params,
                                  !.pc = "fields"]
    IN  /\ self.pc = "cache_set"
        /\ IF self.new_cache_params = EmptyBundle
           THEN /\ views' = [views EXCEPT ![v] = with_urls(self)]
                /\ UNCHANGED <<cache, history, accounts, decorated>>
           ELSE IF ~IsInt(raw)
           THEN /\ views' = [views EXCEPT ![v] = RaiseOther(popped, "ValueError")]
                /\ UNCHANGED <<cache, history, accounts, decorated>>
           ELSE /\ cache' = [cache EXCEPT ![self.cache_key] =
                                cache_set(@, self.new_cache_params, cache_timeout)]
                /\ history' = [history EXCEPT ![self.cache_key] =
                                Written(cache[self.cache_key], @, self.new_cache_params,
                                        cache_timeout)]
                /\ views' = [views EXCEPT ![v] =
                                IF cache_timeout = 0
                                THEN RaiseOther(noted, "TypeError")
                                ELSE with_urls(noted)]
                /\ UNCHANGED <<accounts, decorated>>

\* One second passes: every entry with a timeout ages, and an entry whose
\* timeout has elapsed is gone.
Tick ==
    /\ \E t \in Tokens : cache[t].timeout > 0
    /\ cache' = [t \in Tokens |->
                    IF cache[t].timeout > 0
                    THEN IF cache[t].age + 1 >= cache[t].timeout
                         THEN NoEntry
                         ELSE [cache[t] EXCEPT !.age = @ + 1]
                    ELSE cache[t]]
    /\ history' = [t \in Tokens |->
                    [history[t] EXCEPT
                        !.value = IF history[t].timeout > 0
                                     /\ history[t].age + 1 >= history[t].timeout
                                  THEN EmptyBundle ELSE @,
                        !.age = IF history[t].timeout > 0 /\ @ < history[t].timeout
                                THEN @ + 1 ELSE @,
                        !.first_age = IF history[t].first_timeout > 0
                                         /\ @ < history[t].first_timeout
                                      THEN @ + 1 ELSE @]]
    /\ UNCHANGED <<views, accounts, decorated>>

(***************************************************************************)
(* The stages of get_queryset.                                             *)
(***************************************************************************)
\* Lines 139-180: simple/fields projection, else the metadata prefetch.
Fields(v) ==
    LET self == Enter(views[v], "fields")
        fields == ReplaceDots(Get(self.url_params, "fields", ""))
        simple == Truthy(str_to_bool(Get(self.url_params, "simple", None)))
        metadatas == Truthy(str_to_bool(Get(self.url_params, "meta", None)))
        field_names == Range(Split(fields)) \ {""}
        relateds == {RelatedOf(f) : f \in field_names} \ {""}
        stripped == [self.queryset EXCEPT !.select_related = {}, !.prefetch_related = {}]
        related == IF relateds # {}
                   THEN [stripped EXCEPT !.select_related = relateds] ELSE stripped
        only_raises == \E f \in field_names : f \notin KnownFields
        lookups_metadatas == ViewMetadatas \ self.queryset.prefetch_related
    IN  /\ views[v].pc = "fields"
        /\ views' = [views EXCEPT ![v] =
              IF simple \/ fields # ""
              THEN IF only_raises
                   THEN IF ~Silent(self)
                        THEN RaiseValidationError(
                                [self EXCEPT !.queryset = related, !.failed = "fields"],
                                <<"fields">>)
                        ELSE [self EXCEPT !.queryset = related, !.failed = "fields",
                                          !.pc = "aggregates"]
                   ELSE [self EXCEPT !.queryset =
                                        IF field_names # {}
                                        THEN [related EXCEPT !.only = field_names]
                                        ELSE related,
                                     !.pc = "aggregates"]
              ELSE IF metadatas /\ lookups_metadatas # {}
              THEN [self EXCEPT !.queryset.prefetch_related = @ \cup lookups_metadatas,
                                !.pc = "aggregates"]
              ELSE [self EXCEPT !.pc = "aggregates"]]
        /\ UNCHANGED <<cache, history, accounts, decorated>>

\* Mutant of Aggregations: the alias is built function first.
AggregationsFunctionFirst(url_params) ==
    {<<aggregate \o "_" \o field, aggregate, field>> :
        <<aggregate, field>> \in
            {p \in AGGREGATES \X {"amount", "zz", "a", "b"} :
                p[2] \in Range(Split(Get(url_params, p[1], ""))) \ {""}}}

\* aggregations of lines 216-221: <<alias, function, field>> per requested pair.
Aggregations(url_params) ==
    {<<field \o "_" \o aggregate, aggregate, field>> :
        <<aggregate, field>> \in
            {p \in AGGREGATES \X {"amount", "zz", "a", "b"} :
                p[2] \in Range(Split(Get(url_params, p[1], ""))) \ {""}}}

Aliases(aggregations) == {a[1] : a \in aggregations}

\* Mutant of Aggregates: in silent mode a failed aggregate computation hands
\* the collection it started with, not the filtered one, to the filter stage.
AggregatesFailureRestarts(v) ==
    LET self == Enter(views[v], "aggregates")
        aggregations == Aggregations(self.url_params)
        group_by == Get(self.url_params, "group_by", "")
        values_raises == \E f \in Range(Split(group_by)) : f \notin KnownFields
        aggregate_raises == \E a \in aggregations : a[3] \notin KnownFields
        grouped == [self.queryset EXCEPT !.values = Split(group_by)]
        annotated == IF aggregations # {}
                     THEN [grouped EXCEPT !.annotate = aggregations]
                     ELSE [grouped EXCEPT !.distinct = TRUE]
        inner == [self EXCEPT !.trace = Append(@, "filters")]
        f == DoFilter(self.url_params, self.paginator, Silent(self), self.options,
                      self.queryset)
        filtered == [inner EXCEPT !.queryset = f.queryset, !.options = f.options]
        failed(s) == [s EXCEPT !.options.aggregates = False, !.failed = "aggregates",
                               !.pc = "filters"]
    IN  /\ views[v].pc = "aggregates"
        /\ views' = [views EXCEPT ![v] =
              IF group_by # ""
              THEN IF values_raises \/ (aggregations # {} /\ aggregate_raises)
                   THEN IF ~Silent(self)
                        THEN RaiseValidationError([self EXCEPT !.failed = "aggregates"],
                                                  <<"aggregates">>)
                        ELSE failed(self)
                   ELSE [self EXCEPT !.queryset = annotated,
                                     !.options.aggregates = True,
                                     !.pc = "filters"]
              ELSE IF aggregations # {}
              THEN IF f.raised
                   THEN RaiseValidationError([filtered EXCEPT !.failed = "filters"],
                                             <<"aggregates", "filters">>)
                   ELSE IF aggregate_raises
                   THEN IF ~Silent(self)
                        THEN RaiseValidationError([filtered EXCEPT !.failed = "aggregates"],
                                                  <<"aggregates">>)
                        ELSE failed(self)
                   ELSE Return([filtered EXCEPT !.failed =
                                    IF f.options.filters = False THEN "filters" ELSE ""],
                               Result("dict", f.queryset,
                                      AggregateMap(f.queryset, aggregations),
                                      f.options, <<>>))
              ELSE [self EXCEPT !.pc = "filters"]]
        /\ UNCHANGED <<cache, history, accounts, decorated>>

\* Lines 215-239: group_by, or aggregates alone (filter, then the scalar map).
Aggregates(v) ==
    LET self == Enter(views[v], "aggregates")
        aggregations == Aggregations(self.url_params)
        group_by == Get(self.url_params, "group_by", "")
        values_raises == \E f \in Range(Split(group_by)) : f \notin KnownFields
        aggregate_raises == \E a \in aggregations : a[3] \notin KnownFields
        grouped == [self.queryset EXCEPT !.values = Split(group_by)]
        annotated == IF aggregations # {}
                     THEN [grouped EXCEPT !.annotate = aggregations]
                     ELSE [grouped EXCEPT !.distinct = TRUE]
        inner == [self EXCEPT !.trace = Append(@, "filters")]
        f == DoFilter(self.url_params, self.paginator, Silent(self), self.options,
                      self.queryset)
        filtered == [inner EXCEPT !.queryset = f.queryset, !.options = f.options]
        failed(s) == [s EXCEPT !.options.aggregates = False, !.failed = "aggregates",
                               !.pc = "filters"]
    IN  /\ views[v].pc = "aggregates"
        /\ views' = [views EXCEPT ![v] =
              IF group_by # ""
              THEN IF values_raises \/ (aggregations # {} /\ aggregate_raises)
                   THEN IF ~Silent(self)
                        THEN RaiseValidationError([self EXCEPT !.failed = "aggregates"],
                                                  <<"aggregates">>)
                        ELSE failed(self)
                   ELSE [self EXCEPT !.queryset = annotated,
                                     !.options.aggregates = True,
                                     !.pc = "filters"]
              ELSE IF aggregations # {}
              THEN IF f.raised
                   THEN RaiseValidationError([filtered EXCEPT !.failed = "filters"],
                                             <<"aggregates", "filters">>)
                   ELSE IF aggregate_raises
                   THEN IF ~Silent(self)
                        THEN RaiseValidationError([filtered EXCEPT !.failed = "aggregates"],
                                                  <<"aggregates">>)
                        ELSE failed(filtered)
                   ELSE Return([filtered EXCEPT !.failed =
                                    IF f.options.filters = False THEN "filters" ELSE ""],
                               Result("dict", f.queryset,
                                      AggregateMap(f.queryset, aggregations),
                                      f.options, <<>>))
              ELSE [self EXCEPT !.pc = "filters"]]
        /\ UNCHANGED <<cache, history, accounts, decorated>>

\* Mutant of Filters: a grouped queryset goes to the ordering unfiltered.
FiltersBypassedWhenGrouped(v) ==
    LET self == Enter(views[v], "filters")
        f == DoFilter(self.url_params, self.paginator, Silent(self), self.options,
                      self.queryset)
    IN  /\ views[v].pc = "filters"
        /\ views' = [views EXCEPT ![v] =
              IF self.queryset.values # <<>>
              THEN [self EXCEPT !.pc = "order_by"]
              ELSE IF f.raised
              THEN RaiseValidationError(
                      [self EXCEPT !.queryset = f.queryset, !.failed = "filters"],
                      <<"filters">>)
              ELSE [self EXCEPT !.queryset = f.queryset, !.options = f.options,
                                !.failed = IF f.options.filters = False
                                           THEN "filters" ELSE "",
                                !.pc = "order_by"]]
        /\ UNCHANGED <<cache, history, accounts, decorated>>

\* Line 242: queryset = do_filter(queryset)
Filters(v) ==
    LET self == Enter(views[v], "filters")
        f == DoFilter(self.url_params, self.paginator, Silent(self), self.options,
                      self.queryset)
    IN  /\ views[v].pc = "filters"
        /\ views' = [views EXCEPT ![v] =
              IF f.raised
              THEN RaiseValidationError(
                      [self EXCEPT !.queryset = f.queryset, !.failed = "filters"],
                      <<"filters">>)
              ELSE [self EXCEPT !.queryset = f.queryset, !.options = f.options,
                                !.failed = IF f.options.filters = False
                                           THEN "filters" ELSE "",
                                !.pc = "order_by"]]
        /\ UNCHANGED <<cache, history, accounts, decorated>>

\* Lines 245-259: order_by, evaluated at once so that a field the schema does
\* not resolve raises here.  On a collection that compiles to an empty result
\* set the evaluation of line 249 raises EmptyResultSet, which line 252
\* passes: lines 250-251 have not run.
OrderBy(v) ==
    LET self == Enter(views[v], "order_by")
        order_by == Get(self.url_params, "order_by", "")
        raises == \E f \in Range(Split(order_by)) : f \notin KnownFields
    IN  /\ views[v].pc = "order_by"
        /\ views' = [views EXCEPT ![v] =
              IF order_by = ""
              THEN [self EXCEPT !.pc = "distinct"]
              ELSE IF ~raises /\ self.empty
              THEN [self EXCEPT !.pc = "distinct"]
              ELSE IF ~raises
              THEN [self EXCEPT !.queryset.order_by = Split(order_by),
                                !.options.order_by = True,
                                !.pc = "distinct"]
              ELSE IF ~Silent(self)
              THEN RaiseValidationError([self EXCEPT !.failed = "order_by"], <<"order_by">>)
              ELSE [self EXCEPT !.options.order_by = False, !.failed = "order_by",
                                !.pc = "distinct"]]
        /\ UNCHANGED <<cache, history, accounts, decorated>>

\* Lines 262-277: a bare distinct for a boolean spelling, else on the columns.
Distinct(v) ==
    LET self == Enter(views[v], "distinct")
        distinct == Get(self.url_params, "distinct", "")
        distincts == IF str_to_bool(distinct) # None THEN <<>> ELSE Split(distinct)
        raises == \E f \in Range(distincts) : f \notin KnownFields
    IN  /\ views[v].pc = "distinct"
        /\ views' = [views EXCEPT ![v] =
              IF distinct = ""
              THEN [self EXCEPT !.pc = "finish"]
              ELSE IF ~raises
              THEN [self EXCEPT !.queryset.distinct = TRUE,
                                !.queryset.distinct_fields = distincts,
                                !.options.distinct = True,
                                !.pc = "finish"]
              ELSE IF ~Silent(self)
              THEN RaiseValidationError([self EXCEPT !.failed = "distinct"], <<"distinct">>)
              ELSE [self EXCEPT !.options.distinct = False, !.failed = "distinct",
                                !.pc = "finish"]]
        /\ UNCHANGED <<cache, history, accounts, decorated>>

\* Line 280: whether the view has a paginator that takes the options.
TakesOptions(self) == self.paginator /\ self.has_additional_data

\* Lines 279-285: the ordering a pagination needs, the options handed to the
\* paginator, and the return of the queryset.
Finish(v) ==
    LET self == [views[v] EXCEPT !.trace = Append(@, "finish")]
        ordered == IF Ordered(self.queryset)
                   THEN self.queryset
                   ELSE [self.queryset EXCEPT !.order_by =
                            IF self.queryset.values # <<>>
                            THEN self.queryset.values ELSE <<PkName>>]
        queryset == IF TakesOptions(self) THEN ordered ELSE self.queryset
        attached == IF TakesOptions(self)
                    THEN [self EXCEPT !.attached = TRUE, !.additional_data = self.options]
                    ELSE self
    IN  /\ views[v].pc = "finish"
        /\ views' = [views EXCEPT ![v] =
              Return(attached, Result("QuerySet", queryset, {}, self.options, <<>>))]
        /\ UNCHANGED <<cache, history, accounts, decorated>>

(***************************************************************************)
(* The callers: the framework constructs a view per request and calls      *)
(* get_queryset or list on it; list (lines 73-83) calls get_queryset, and  *)
(* for a QuerySet the inherited list, which calls get_queryset again and   *)
(* renders the page.                                                       *)
(***************************************************************************)
NewRequest(v, requests) ==
    /\ views[v].call = "none"
    /\ \E r \in requests :
          views' = [views EXCEPT ![v] = ViewOf(r)]
    /\ UNCHANGED <<cache, history, accounts, decorated>>

GetQueryset(v) ==
    /\ views[v].pc = "idle"
    /\ views' = [views EXCEPT ![v] =
          Begin([views[v] EXCEPT !.prev = views[v].ret, !.ret = NoResult,
                                 !.response = NoResult, !.paginated = FALSE,
                                 !.serializer = ""], "get_queryset")]
    /\ UNCHANGED <<cache, history, accounts, decorated>>

List(v) ==
    /\ views[v].pc = "idle"
    /\ views' = [views EXCEPT ![v] =
          Begin([views[v] EXCEPT !.prev = views[v].ret, !.ret = NoResult,
                                 !.response = NoResult, !.paginated = FALSE,
                                 !.serializer = ""], "list")]
    /\ UNCHANGED <<cache, history, accounts, decorated>>

\* Mutant of ListSuper: the inherited list renders the queryset that list
\* already has.
ListSuperKeepsQueryset(v) ==
    /\ views[v].pc = "begin"
    /\ views[v].call = "list_super"
    /\ views' = [views EXCEPT ![v].pc = "render"]
    /\ UNCHANGED <<cache, history, accounts, decorated>>

\* super().list(request): self.filter_queryset(self.get_queryset())
ListSuper(v) ==
    /\ views[v].pc = "begin"
    /\ views[v].call = "list_super"
    /\ views' = [views EXCEPT ![v] =
          Begin([views[v] EXCEPT !.prev = views[v].ret], "list_super")]
    /\ UNCHANGED <<cache, history, accounts, decorated>>

\* get_serializer_class, lines 20-56, for the list action of a viewset that
\* declares a default_serializer and a simple_serializer: which serializer
\* the parameters select.
get_serializer_class(url_params) ==
    IF "group_by" \in DOMAIN url_params \/ Aggregations(url_params) # {}
    THEN "grouped"
    ELSE IF "fields" \in DOMAIN url_params
    THEN "fields"
    ELSE IF Truthy(str_to_bool(Get(url_params, "simple", None)))
    THEN "simple"
    ELSE "default"

\* paginate_queryset, lines 85-89: whether the result is paginated.
paginate_queryset(url_params, paginator, kind) ==
    /\ kind = "QuerySet"
    /\ ~Truthy(str_to_bool(Get(url_params, "all", None)))
    /\ paginator

\* The rest of the inherited list: the page is serialized into the response,
\* both paginate_queryset and get_serializer_class reading the parameters of
\* the request (self.request.query_params), not the merged ones.
\* What it makes of a get_queryset result that is no QuerySet is not decided
\* by this code: a response, or an AttributeError that list turns into a
\* ValidationError "fields: ..." (lines 81-83).
Render(v) ==
    LET self == views[v] IN
    /\ self.pc = "render"
    /\ \E raises \in {b \in BOOLEAN : b => self.ret.kind # "QuerySet"} :
          views' = [views EXCEPT ![v] =
              IF raises
              THEN [self EXCEPT !.queryset_error = [set |-> TRUE, tags |-> <<"fields">>],
                                !.response = Result("ValidationError", self.ret.queryset, {},
                                                    self.ret.options, <<"fields">>),
                                !.pc = "idle", !.call = "none"]
              ELSE [self EXCEPT !.response = [self.ret EXCEPT !.kind = "Response"],
                                !.paginated = paginate_queryset(Pop(self.params, "cache"),
                                                 self.paginator, self.ret.kind),
                                !.serializer = get_serializer_class(self.params),
                                !.pc = "idle", !.call = "none"]]
    /\ UNCHANGED <<cache, history, accounts, decorated>>

(***************************************************************************)
(* The requests of the model.                                              *)
(***************************************************************************)
\* Every bundle over exactly the keys `keys`, each value drawn from values[key].
RECURSIVE BundlesOn(_, _)
BundlesOn(keys, values) ==
    IF keys = {}
    THEN {EmptyBundle}
    ELSE LET key == CHOOSE k \in keys : TRUE IN
         {[k \in DOMAIN b \cup {key} |-> IF k = key THEN value ELSE b[k]] :
             b \in BundlesOn(keys \ {key}, values), value \in values[key]}

\* Every bundle of at most `max` of the keys of `values`.
Bundles(values, max) ==
    UNION {BundlesOn(keys, values) :
             keys \in {ks \in SUBSET DOMAIN values : Cardinality(ks) <= max}}

\* The parameters of the compilation model: no cache token.  "zz" is a field
\* the schema does not resolve, "rel.zz" a path the projection rejects, "?" a
\* value that cannot be coerced, "((" a malformed filter expression.
CompileValues ==
    [silent |-> {"true"}, fields |-> {"a", "rel.c", "rel.zz"}, simple |-> {"true"},
     meta |-> {"true"}, group_by |-> {"type", "zz"}, sum |-> {"amount", "zz"},
     a |-> {"1", "?", "[b]"}, filters |-> {"a>0", "(("},
     order_by |-> {"a", "zz"}, distinct |-> {"true", "False", "a,b", "zz", ""}, page |-> {"2"}]
        @@ ("-b" :> {"2", "?"}) @@ ("-a" :> {"1"}) @@ [count |-> {"amount"}]

\* The parameters sent to a view whose base collection compiles to an empty
\* result set.
EmptyValues ==
    [silent |-> {"true"}, a |-> {"1"}, order_by |-> {"a", "zz"}, distinct |-> {"a,b"}]

\* The filters sent with a silent request for an aggregate without group_by:
\* clauses that coerce or not, a free-text expression that parses or not.
AggregateValues ==
    [a |-> {"1", "?"}, filters |-> {"a>0", "(("}] @@ ("-b" :> {"2", "?"})

CompileRequests ==
    {[params |-> b, base |-> "QuerySet", paginator |-> p[1],
      has_additional_data |-> p[2], empty |-> FALSE] :
        b \in Bundles(CompileValues, MaxParams),
        p \in {<<FALSE, FALSE>>, <<TRUE, FALSE>>, <<TRUE, TRUE>>}}
    \cup {[params |-> b, base |-> "payload", paginator |-> FALSE,
           has_additional_data |-> FALSE, empty |-> FALSE] :
            b \in Bundles(CompileValues, 1)}
    \cup {[params |-> b, base |-> "QuerySet", paginator |-> p,
           has_additional_data |-> p, empty |-> TRUE] :
            b \in Bundles(EmptyValues, MaxParams), p \in BOOLEAN}
    \cup {[params |-> b @@ [silent |-> "true", sum |-> "amount"],
           base |-> "QuerySet", paginator |-> p,
           has_additional_data |-> p, empty |-> FALSE] :
            b \in Bundles(AggregateValues, MaxParams - 1), p \in BOOLEAN}

\* The parameters of the cache model, sent with or without a token: "x" is a
\* timeout that is no integer.
CacheValues ==
    [timeout |-> {"0", "1", "x"}, a |-> {"1", "2"}, order_by |-> {"zz"}, page |-> {"2"}]

WithToken(bundles, tokens) == {DictUpdate(b, [cache |-> t]) : b \in bundles, t \in tokens}

CacheRequests ==
    {[params |-> b, base |-> "QuerySet", paginator |-> TRUE,
      has_additional_data |-> TRUE, empty |-> FALSE] :
        b \in Bundles(CacheValues, MaxCacheParams)
              \cup WithToken(Bundles(CacheValues, MaxCacheParams), {"T1"})}
    \cup {[params |-> b, base |-> "payload", paginator |-> TRUE,
           has_additional_data |-> TRUE, empty |-> FALSE] :
            b \in WithToken(Bundles(CacheValues, 1), {"T1"})}

\* The parameters of the concurrency model: every request carries a token.
ConcurrentValues == [a |-> {"1"}, order_by |-> {"zz"}]

ConcurrentRequests ==
    {[params |-> b, base |-> "QuerySet", paginator |-> TRUE,
      has_additional_data |-> TRUE, empty |-> FALSE] :
        b \in WithToken(Bundles(ConcurrentValues, MaxConcurrentParams), Tokens)}

\* The parameters of the stored-parameter model: parameters that list reads
\* after get_queryset, sent with or without a token.
SharedValues ==
    [all |-> {"true"}, simple |-> {"true"}, fields |-> {"a"}, order_by |-> {"a"}]

SharedRequests ==
    {[params |-> b, base |-> "QuerySet", paginator |-> TRUE,
      has_additional_data |-> TRUE, empty |-> FALSE] :
        b \in Bundles(SharedValues, MaxSharedParams)
              \cup WithToken(Bundles(SharedValues, MaxSharedParams), {"T1"})}

(***************************************************************************)
(* UserViewSet, lines 291-341: the creation and the update of user         *)
(* accounts.                                                               *)
(*   accounts  the user accounts (users) and, of the latest create or      *)
(*             update, who asked for it and on which account (last).       *)
(***************************************************************************)
UserIds == 1 .. MaxUsers

Groups == {"g1"}

Permissions == {"p1"}

\* request.user of a request that is not authenticated: AnonymousUser, or
\* None when the project sets UNAUTHENTICATED_USER to None.
Anonymous == 0

NoneUser == -1

NoUser ==
    [exists |-> FALSE, is_staff |-> FALSE, is_superuser |-> FALSE,
     groups |-> {}, user_permissions |-> {}]

AnonymousUser == [NoUser EXCEPT !.exists = TRUE]

NoLast == [action |-> "none", requester |-> Anonymous, target |-> 0, raised |-> FALSE]

NoAccounts == [users |-> [u \in UserIds |-> NoUser], last |-> NoLast]

\* request.user.
RequestUser(requester) ==
    IF requester \in UserIds THEN accounts.users[requester] ELSE AnonymousUser

\* serializer.validated_data: the fields the request gives (keys) and their
\* values.
DataKeys == {"is_staff", "is_superuser", "groups", "user_permissions"}

Datas ==
    {[keys |-> keys,
      is_staff |-> is_staff /\ "is_staff" \in keys,
      is_superuser |-> is_superuser /\ "is_superuser" \in keys,
      groups |-> IF "groups" \in keys THEN groups ELSE {},
      user_permissions |-> IF "user_permissions" \in keys THEN user_permissions ELSE {}] :
        keys \in SUBSET DataKeys, is_staff \in BOOLEAN, is_superuser \in BOOLEAN,
        groups \in SUBSET Groups, user_permissions \in SUBSET Permissions}

\* check_permissions, lines 296-310, where `inherited` is what the permission
\* classes of the project answer.
check_permissions(current_user, action, same, user, inherited) ==
    IF current_user.is_superuser
    THEN TRUE
    ELSE IF action = "create"
    THEN TRUE
    ELSE IF action = "update"
            /\ (same \/ (current_user.is_staff /\ ~(user.is_staff \/ user.is_superuser)))
    THEN TRUE
    ELSE inherited

\* check_data, lines 312-333, for a request.user that is an object: `not user`
\* is false, and lines 316-321 do not run.
check_data(user, data) ==
    [data EXCEPT
        !.groups = IF "groups" \in data.keys /\ data.groups # {} /\ ~user.is_superuser
                   THEN user.groups \cap data.groups ELSE @,
        !.user_permissions =
                   IF "user_permissions" \in data.keys /\ data.user_permissions # {}
                         /\ ~user.is_superuser
                   THEN user.user_permissions \cap data.user_permissions ELSE @]

\* serializer.save(): the account with the fields of the data written.
Saved(account, data) ==
    [exists |-> TRUE,
     is_staff |-> IF "is_staff" \in data.keys THEN data.is_staff ELSE account.is_staff,
     is_superuser |-> IF "is_superuser" \in data.keys
                      THEN data.is_superuser ELSE account.is_superuser,
     groups |-> IF "groups" \in data.keys THEN data.groups ELSE account.groups,
     user_permissions |-> IF "user_permissions" \in data.keys
                          THEN data.user_permissions ELSE account.user_permissions]

Asked(action, requester, target) ==
    [action |-> action, requester |-> requester, target |-> target, raised |-> FALSE]

\* With request.user None, line 298 (and line 316 after it) reads an attribute
\* of None: the request ends with an AttributeError.
UserRequestRaises ==
    /\ \E action \in {"create", "update"} :
          accounts' = [accounts EXCEPT !.last =
              [NoLast EXCEPT !.action = action, !.requester = NoneUser, !.raised = TRUE]]
    /\ UNCHANGED <<cache, history, views, decorated>>

\* POST: check_permissions, then perform_create (lines 335-337).
UserCreate ==
    /\ \E requester \in {u \in UserIds : accounts.users[u].exists} \cup {Anonymous},
          target \in {u \in UserIds : ~accounts.users[u].exists},
          data \in Datas :
          /\ check_permissions(RequestUser(requester), "create", FALSE, NoUser, FALSE)
          /\ accounts' =
                [users |-> [accounts.users EXCEPT ![target] =
                               Saved(NoUser, check_data(RequestUser(requester), data))],
                 last |-> Asked("create", requester, target)]
    /\ UNCHANGED <<cache, history, views, decorated>>

\* PUT or PATCH: check_permissions, then perform_update (lines 339-341).
UserUpdate ==
    /\ \E requester \in {u \in UserIds : accounts.users[u].exists} \cup {Anonymous},
          target \in {u \in UserIds : accounts.users[u].exists},
          data \in Datas, inherited \in BOOLEAN :
          /\ check_permissions(RequestUser(requester), "update", requester = target,
                               accounts.users[target], inherited)
          /\ accounts' =
                [users |-> [accounts.users EXCEPT ![target] =
                               Saved(@, check_data(RequestUser(requester), data))],
                 last |-> Asked("update", requester, target)]
    /\ UNCHANGED <<cache, history, views, decorated>>

\* The threads that call a decorated class, and the decorator object before
\* any call.
Threads == 1 .. MaxThreads

NoDecorated ==
    [instance |-> 0, constructed |-> 0,
     pc |-> [t \in Threads |-> "idle"],
     made |-> [t \in Threads |-> 0],
     returned |-> [t \in Threads |-> <<>>]]

\* The accounts a project starts with: one account that is no superuser.
InitUser ==
    /\ cache = [t \in Tokens |-> NoEntry]
    /\ history = [t \in Tokens |-> NoHistory]
    /\ views = [v \in Views |-> NoView]
    /\ decorated = NoDecorated
    /\ \E is_staff \in BOOLEAN, groups \in SUBSET Groups,
          user_permissions \in SUBSET Permissions :
          accounts = [NoAccounts EXCEPT !.users[1] =
              [exists |-> TRUE, is_staff |-> is_staff, is_superuser |-> FALSE,
               groups |-> groups, user_permissions |-> user_permissions]]

NextUser ==
    \/ UserCreate
    \/ UserUpdate
    \/ UserRequestRaises

SpecUser == InitUser /\ [][NextUser]_vars

(***************************************************************************)
(* singleton, src/common/utils.py lines 37-49: a decorated class called by *)
(* several threads.                                                        *)
(*   decorated  the decorator object (instance: 0 for None, else the       *)
(*              number of the instance), the number of instances           *)
(*              constructed, and per thread its position in __call__, the  *)
(*              instance it constructed and what its calls returned.       *)
(***************************************************************************)
\* Line 46: if self.instance is None.
SingletonTest(t) ==
    /\ decorated.pc[t] = "idle"
    /\ Len(decorated.returned[t]) < MaxCalls
    /\ decorated' = [decorated EXCEPT
          !.pc[t] = IF decorated.instance = 0 THEN "construct" ELSE "return"]
    /\ UNCHANGED <<cache, history, views, accounts>>

\* Line 47, right-hand side: self._class(*args, **kwargs).
SingletonConstruct(t) ==
    /\ decorated.pc[t] = "construct"
    /\ decorated' = [decorated EXCEPT
          !.constructed = @ + 1, !.made[t] = decorated.constructed + 1,
          !.pc[t] = "assign"]
    /\ UNCHANGED <<cache, history, views, accounts>>

\* Line 47, the assignment to self.instance.
SingletonAssign(t) ==
    /\ decorated.pc[t] = "assign"
    /\ decorated' = [decorated EXCEPT !.instance = decorated.made[t], !.pc[t] = "return"]
    /\ UNCHANGED <<cache, history, views, accounts>>

\* Line 48: return self.instance.
SingletonReturn(t) ==
    /\ decorated.pc[t] = "return"
    /\ decorated' = [decorated EXCEPT
          !.returned[t] = Append(@, decorated.instance), !.pc[t] = "idle"]
    /\ UNCHANGED <<cache, history, views, accounts>>

InitSingleton ==
    /\ cache = [t \in Tokens |-> NoEntry]
    /\ history = [t \in Tokens |-> NoHistory]
    /\ views = [v \in Views |-> NoView]
    /\ accounts = NoAccounts
    /\ decorated = NoDecorated

NextSingleton ==
    \E t \in Threads :
        \/ SingletonTest(t)
        \/ SingletonConstruct(t)
        \/ SingletonAssign(t)
        \/ SingletonReturn(t)

SpecSingleton == InitSingleton /\ [][NextSingleton]_vars

(***************************************************************************)
(* Specifications.                                                         *)
(***************************************************************************)
Init ==
    /\ cache = [t \in Tokens |-> NoEntry]
    /\ history = [t \in Tokens |-> NoHistory]
    /\ accounts = NoAccounts
    /\ decorated = NoDecorated
    /\ views = [v \in Views |-> NoView]

\* The cache model: requests one after the other, each on a view of its own,
\* while time passes.
Next ==
    \/ NewRequest(1, CacheRequests)
    \/ GetQueryset(1)
    \/ List(1)
    \/ ListSuper(1)
    \/ CacheGet(1)
    \/ CacheSet(1)
    \/ Fields(1)
    \/ Aggregates(1)
    \/ Filters(1)
    \/ OrderBy(1)
    \/ Distinct(1)
    \/ Finish(1)
    \/ Render(1)
    \/ Tick

Spec == Init /\ [][Next]_vars

\* The compilation model: one request without a cache token, on one view, and
\* the calls made on that view.
InitCompile ==
    /\ cache = [t \in Tokens |-> NoEntry]
    /\ history = [t \in Tokens |-> NoHistory]
    /\ accounts = NoAccounts
    /\ decorated = NoDecorated
    /\ \E r \in CompileRequests :
          views = [v \in Views |->
                      IF v = 1 THEN ViewOf(r) ELSE NoView]

NextCompile ==
    \/ GetQueryset(1)
    \/ List(1)
    \/ ListSuper(1)
    \/ Fields(1)
    \/ Aggregates(1)
    \/ Filters(1)
    \/ OrderBy(1)
    \/ Distinct(1)
    \/ Finish(1)
    \/ Render(1)

SpecCompile == InitCompile /\ [][NextCompile]_vars

\* The concurrency model: two views serve requests at the same time, each
\* step of get_queryset interleaved with the other view's.
NextConcurrent ==
    \E v \in Views :
        \/ NewRequest(v, ConcurrentRequests)
        \/ GetQueryset(v)
        \/ CacheGet(v)
        \/ CacheSet(v)
        \/ Fields(v)
        \/ Aggregates(v)
        \/ Filters(v)
        \/ OrderBy(v)
        \/ Distinct(v)
        \/ Finish(v)

SpecConcurrent == Init /\ [][NextConcurrent]_vars

\* The stored-parameter model: list requests one after the other, some of
\* them resolving a token that earlier requests stored parameters under.
NextShared ==
    \/ NewRequest(1, SharedRequests)
    \/ List(1)
    \/ ListSuper(1)
    \/ CacheGet(1)
    \/ CacheSet(1)
    \/ Fields(1)
    \/ Aggregates(1)
    \/ Filters(1)
    \/ OrderBy(1)
    \/ Distinct(1)
    \/ Finish(1)
    \/ Render(1)

SpecShared == Init /\ [][NextShared]_vars

\* The model of a request that follows another: two requests with the same
\* token, each on a view of its own, the second sent once get_queryset has
\* returned or raised on the first, while time passes.  "zz" is a field that
\* does not exist and "?" a value that cannot be coerced.
FollowingValues ==
    [order_by |-> {"zz", "a"}, a |-> {"?", "1"}, timeout |-> {"1"}, silent |-> {"true"}]

FollowingRequests ==
    {[params |-> b, base |-> "QuerySet", paginator |-> TRUE,
      has_additional_data |-> TRUE, empty |-> FALSE] :
        b \in WithToken(Bundles(FollowingValues, MaxFollowingParams), {"T1"})}

FollowingRequest(v) ==
    /\ views[v].pc = "unborn"
    /\ v # 1 => views[1].pc = "idle" /\ views[1].ret # NoResult
    /\ NewRequest(v, FollowingRequests)

\* The one call of get_queryset that a request makes.
FollowingCall(v) ==
    /\ views[v].ret = NoResult
    /\ GetQueryset(v)

NextFollowing ==
    \/ \E v \in Views :
          \/ FollowingRequest(v)
          \/ FollowingCall(v)
          \/ CacheGet(v)
          \/ CacheSet(v)
          \/ Fields(v)
          \/ Aggregates(v)
          \/ Filters(v)
          \/ OrderBy(v)
          \/ Distinct(v)
          \/ Finish(v)
    \/ Tick

SpecFollowing == Init /\ [][NextFollowing]_vars

(***************************************************************************)
(* Properties.                                                             *)
(***************************************************************************)
\* The request's own parameters: the query string but the cache token.
Incoming(self) == Pop(self.params, "cache")

\* The pcs of a running get_queryset once the cache has been read.
AfterRead == {"cache_set", "fields", "aggregates", "filters", "order_by", "distinct", "finish"}

\* C1: with cache=T the parameters compilation uses are the bundle stored
\* under T (empty when nothing live is stored) overlaid with the request's own:
\* every key of either side is in the merge, a key of both sides has the
\* request's value, a key of the stored side only has the stored value.  The
\* stages see that merge, less the timeout once it has been consumed.
C1_MergeOverlay ==
    \A v \in Views :
        LET self == views[v]
            merged == [k \in DOMAIN self.cache_params \cup DOMAIN Incoming(self) |->
                          IF k \in DOMAIN Incoming(self)
                          THEN Incoming(self)[k] ELSE self.cache_params[k]]
        IN  self.cache_key # "" /\ self.pc \in AfterRead =>
               /\ self.pc = "cache_set" => self.url_params = merged
               /\ self.url_params \in {merged, Pop(merged, "timeout")}

\* C1 witness: a request overrides one stored key and inherits another.
C1_Witness ==
    \E v \in Views :
        LET self == views[v] IN
        /\ self.cache_key # "" /\ self.pc = "fields"
        /\ \E k \in DOMAIN self.cache_params \cap DOMAIN Incoming(self) :
              self.cache_params[k] # Incoming(self)[k]
        /\ \E k \in DOMAIN self.cache_params : k \notin DOMAIN Incoming(self)

\* Whether, by the history of the cache.set calls, the entry a view read was
\* still within the timeout of the latest call.
SeenLive(self) ==
    self.seen.timeout = 0 \/ (self.seen.timeout > 0 /\ self.seen.age < self.seen.timeout)

SeenExpired(self) == self.seen.timeout > 0 /\ self.seen.age >= self.seen.timeout

\* C2 as claimed: a request that reads the token once the timeout has elapsed
\* since the bundle was first stored compiles with its own parameters only,
\* also when the token was resolved in between.
C2_ExpiresAfterFirstStore ==
    \A v \in Views :
        LET self == views[v] IN
        self.pc = "cache_set" /\ self.seen.first_timeout > 0
                              /\ self.seen.first_age >= self.seen.first_timeout
            => self.url_params = Incoming(self)

\* C2 amended: the timeout runs from the latest write of the entry (every
\* request with the token and a non-empty merge writes it again).  A request
\* issued before the timeout of the latest write has elapsed compiles with
\* the bundle of that write overlaid with its own parameters; one issued once
\* it has elapsed compiles with exactly its own parameters.
C2_ExpiresAfterLastWrite ==
    \A v \in Views :
        LET self == views[v] IN
        self.pc = "cache_set" =>
            /\ SeenLive(self) =>
                  self.url_params = DictUpdate(self.seen.value, Incoming(self))
            /\ SeenExpired(self) => self.url_params = Incoming(self)

\* C2 witness: a request with parameters of its own reads a token whose entry
\* has expired.
C2_Witness ==
    \E v \in Views :
        LET self == views[v] IN
        /\ self.pc = "cache_set" /\ SeenExpired(self)
        /\ Incoming(self) # EmptyBundle /\ self.url_params = Incoming(self)

\* The reserved keys of a stored bundle: the compiler's, the aggregate
\* function names and the pagination keys.
ReservedKeys ==
    {"fields", "simple", "all", "meta", "timeout", "filters", "order_by", "distinct",
     "group_by", "silent", "display", "page", "page_size"} \cup AGGREGATES

\* C3 as claimed: no stored bundle holds a reserved key.
C3_NoReservedKeyStored ==
    \A t \in Tokens : DOMAIN cache[t].value \cap ReservedKeys = {}

\* C3 amended: after any sequence of requests served by paginating views, no
\* stored bundle holds a default reserved key (format, the paginator's page
\* and page-size parameters) or the cache token; every other merged parameter
\* is stored, the other reserved keys (order_by, timeout, ...) included.
C3_NoDefaultReservedKeyStored ==
    /\ \A t \in Tokens :
          DOMAIN cache[t].value \cap {"format", "page", "page_size", "cache"} = {}
    /\ \A v \in Views :
          LET self == views[v] IN
          self.pc = "fields" /\ self.cache_key # "" /\ self.new_cache_params # EmptyBundle
             /\ Live(cache[self.cache_key]) =>
                DOMAIN cache[self.cache_key].value =
                    (DOMAIN self.cache_params \cup DOMAIN Incoming(self))
                        \ {"format", "page", "page_size"}

\* C3 witness: a request with a page parameter has stored its merge, which
\* holds reserved keys.
C3_Witness ==
    \E v \in Views :
        LET self == views[v] IN
        /\ self.pc = "fields" /\ self.cache_key # ""
        /\ "page" \in DOMAIN self.url_params
        /\ "order_by" \in DOMAIN cache[self.cache_key].value

\* C4: every change of the cache is the write of one request: the entry of that
\* request's token becomes exactly the merge that request computed, whatever
\* the entry held, and no other entry changes.  So, after two concurrent
\* requests, the entry is the merge of the one that wrote last.
C4_LastWriteWins ==
    [][\A t \in Tokens :
          cache'[t] # cache[t] =>
             /\ \E v \in Views :
                   /\ views[v].pc = "cache_set" /\ views[v].cache_key = t
                   /\ views'[v] # views[v]
                   /\ cache'[t].value = views[v].new_cache_params
             /\ \A u \in Tokens \ {t} : cache'[u] = cache[u]]_vars

\* C4 witness: two requests with the same token have both written and both
\* completed, and the entry is the merge of one of them without the
\* parameter of the other.
C4_Witness ==
    \E v, w \in Views :
        /\ v # w /\ views[v].pc = "idle" /\ views[w].pc = "idle"
        /\ "cache" \in DOMAIN views[v].params /\ "cache" \in DOMAIN views[w].params
        /\ views[v].params["cache"] = views[w].params["cache"]
        /\ "cache_set" \in Range(views[v].trace) /\ "cache_set" \in Range(views[w].trace)
        /\ cache[views[v].params["cache"]].value = Incoming(views[w])
        /\ \E k \in DOMAIN Incoming(views[v]) : k \notin DOMAIN Incoming(views[w])

\* The pcs at which a stage of get_queryset is about to run.
StagePcs == {"fields", "aggregates", "filters", "order_by", "distinct", "finish"}

\* The pc a stage hands over to.
NextStage ==
    [fields |-> "aggregates", aggregates |-> "filters", filters |-> "order_by",
     order_by |-> "distinct", distinct |-> "finish"]

\* Whether the request asks for silent mode.
AsksSilent(self) == Truthy(str_to_bool(Get(Incoming(self), "silent", None)))

\* C5: in strict mode a stage failure ends get_queryset with one validation
\* error whose tag is the tag of the stage that failed, on every path, the
\* filter stage run for aggregates without group_by included.
C5_TagIsFailedStage ==
    \A v \in Views :
        views[v].ret.kind = "ValidationError" => views[v].ret.tags = <<views[v].failed>>

\* C6 as claimed: in silent mode the failure of any stage, the fields
\* projection included, is recorded as false for that stage in the options.
C6_EveryFailureFlagged ==
    \A v \in Views :
        LET self == views[v] IN
        AsksSilent(self) /\ self.failed # "" /\ self.pc \in StagePcs =>
            \E flag \in {"fields", "aggregates", "filters", "order_by", "distinct"} :
                /\ flag = self.failed
                /\ flag \in DOMAIN self.options
                /\ self.options[flag] = False

\* C6 amended: with silent=true get_queryset never raises for a stage failure
\* and the stage after the failed one runs; a failure of the aggregates,
\* filters, order_by or distinct stage is recorded as false for that stage in
\* the options (a malformed order_by gives options.order_by = false); a failure
\* of the fields projection is swallowed with no record, the options having no
\* flag for it.
C6_SilentDowngrades ==
    \A v \in Views :
        LET self == views[v] IN
        AsksSilent(self) =>
            /\ self.ret.kind \notin Exceptions
            /\ self.failed # "" /\ self.pc \in StagePcs =>
                  /\ self.pc = NextStage[self.failed]
                  /\ self.failed # "fields" => self.options[self.failed] = False
                  /\ self.failed = "fields" => self.options = InitOptions
            /\ self.failed = "filters" /\ self.ret.kind = "dict" =>
                  self.ret.options.filters = False

\* C6 witness: a malformed order_by in silent mode, recorded, distinct next.
C6_Witness ==
    \E v \in Views :
        LET self == views[v] IN
        /\ AsksSilent(self) /\ self.failed = "order_by" /\ self.pc = "distinct"
        /\ self.options.order_by = False

\* C7: in silent mode the plan handed to the stage after a failed one is the
\* plan that entered the failed stage.
C7_FailedStageKeepsNothing ==
    \A v \in Views :
        LET self == views[v] IN
        AsksSilent(self) /\ self.failed # "" /\ self.pc \in StagePcs =>
            self.queryset = self.pre

\* C8 as claimed: a call on a view whose get_queryset has raised a validation
\* error reports that error again.
C8_LatchReportsError ==
    \A v \in Views :
        LET self == views[v] IN
        self.queryset_error.set /\ self.pc = "idle" /\ self.trace = <<>>
                                /\ self.ret.kind # "unset" =>
            /\ self.ret.kind = "ValidationError"
            /\ self.ret.tags = self.queryset_error.tags

\* C8 amended: once get_queryset has raised a validation error on a view,
\* every later get_queryset or list call on that view short-circuits: it
\* returns None (list answers with a response of that empty payload) and does
\* not report the error again, runs no stage, reads and writes no cache
\* entry, and the recorded error stays.  Only a new request, on a view of its
\* own, compiles again.
C8_LatchShortCircuits ==
    [][\A v \in Views :
          views[v].queryset_error.set /\ views'[v] # views[v] =>
             \/ ~views'[v].queryset_error.set /\ views'[v].ret.kind = "unset"
             \/ /\ views[v].pc = "idle" /\ views'[v].pc = "idle"
                /\ views'[v].ret.kind = "None"
                /\ views'[v].response.kind \in {"unset", "Response"}
                /\ views'[v].trace = <<>>
                /\ views'[v].queryset_error = views[v].queryset_error
                /\ cache' = cache /\ history' = history]_vars

\* C8 witness: list was called on a view with a cache token after the error.
C8_Witness ==
    \E v \in Views :
        LET self == views[v] IN
        /\ self.queryset_error.set /\ "cache" \in DOMAIN self.params
        /\ self.ret.kind = "None" /\ self.response.kind = "Response"

\* C9: get_queryset ends in a plan, an aggregate map, a payload or a validation
\* error: no other exception escapes it, a cache token with timeout=0 or with
\* a timeout that is no integer included.
C9_NoOtherException ==
    \A v \in Views : views[v].ret.kind \notin Exceptions \ {"ValidationError"}

\* Whether every key of the request is a reserved key of its view.
OnlyReservedKeys(self) ==
    DOMAIN self.params \subseteq
        RESERVED_QUERY_PARAMS \cup default_reserved_query_params(self.paginator)

\* The reserved keys that transform the plan.
TransformingKeys ==
    {"fields", "simple", "meta", "filters", "order_by", "distinct", "group_by"}
        \cup AGGREGATES

\* C10 as claimed: a bundle of reserved keys only compiles to the base
\* collection, with no filter, ordering or distinct.
C10_ReservedOnlyIsBase ==
    \A v \in Views :
        LET self == views[v] IN
        self.ret.kind = "QuerySet" /\ OnlyReservedKeys(self) =>
            self.ret.queryset = BaseQuerySet

\* C10 amended: for a bundle whose keys are all reserved keys, no parameter is
\* read as a filter clause: the plan has no include and no exclude clause, and
\* it is the base collection transformed by what its reserved keys ask for
\* only (a predicate for filters, an ordering for order_by, a distinct for
\* distinct or group_by) and, on a view whose paginator takes the options,
\* ordered by the primary key when nothing else orders it.  With none of
\* fields, simple, meta, filters, order_by, distinct, group_by and the
\* aggregate names, it is the base collection, ordered by the primary key on
\* a view whose paginator takes the options.
C10_ReservedOnlyNoFilter ==
    \A v \in Views :
        LET self == views[v]
            plan == self.ret.queryset
            keys == DOMAIN self.params
        IN  self.ret.kind = "QuerySet" /\ OnlyReservedKeys(self) =>
               /\ plan.filter = {} /\ plan.exclude = {}
               /\ "filters" \notin keys => plan.q = {}
               /\ "order_by" \notin keys /\ ~TakesOptions(self) => plan.order_by = <<>>
               /\ keys \cap {"distinct", "group_by"} = {} => ~plan.distinct
               /\ keys \cap TransformingKeys = {} =>
                     plan = IF TakesOptions(self)
                            THEN [BaseQuerySet EXCEPT !.order_by = <<PkName>>]
                            ELSE BaseQuerySet

\* C10 witness: silent and page on a paginating view compile to the base
\* collection ordered by the primary key.
C10_Witness ==
    \E v \in Views :
        LET self == views[v] IN
        /\ self.ret.kind = "QuerySet" /\ self.paginator
        /\ DOMAIN self.params = {"silent", "page"}
        /\ self.ret.queryset = [BaseQuerySet EXCEPT !.order_by = <<PkName>>]

\* Whether two results are structurally identical: the same kind, plan,
\* aggregate map, error tags and Options flags.
SameResult(r1, r2) ==
    /\ r1.kind = r2.kind /\ r1.queryset = r2.queryset
    /\ r1.aggregates = r2.aggregates /\ r1.tags = r2.tags
    /\ \A flag \in {"aggregates", "distinct", "filters", "order_by"} :
          r1.options[flag] = r2.options[flag]

\* Both the call before and the latest call of a view have ended.
CompiledTwice(self) == self.prev.kind # "unset" /\ self.ret.kind # "unset"

\* C11 as claimed: two compilations of the same bundle on a view give
\* structurally identical results, with or without a cache token, and whether
\* the first succeeded or failed.
C11_Idempotent ==
    \A v \in Views :
        CompiledTwice(views[v]) => SameResult(views[v].ret, views[v].prev)

\* C11 amended: two compilations of the same bundle on a view, against an
\* unchanged base collection, give structurally identical results (same plan,
\* same Options flags, same error other than a validation error) when the
\* first did not raise a validation error and, for a bundle with a cache
\* token, when the entry of the token has not expired by the second read.
\* After a validation error the second compilation on that view returns None.
C11_IdempotentUnlessLatchedOrExpired ==
    \A v \in Views :
        LET self == views[v] IN
        CompiledTwice(self) =>
            IF self.prev.kind \in {"ValidationError", "None"}
            THEN self.ret.kind = "None"
            ELSE ~self.seen_expired => SameResult(self.ret, self.prev)

\* C11 witness: a request with a cache token compiled twice to the same plan,
\* with a parameter that comes from the stored bundle only.
C11_Witness ==
    \E v \in Views :
        LET self == views[v] IN
        /\ CompiledTwice(self) /\ self.prev.kind = "QuerySet"
        /\ "cache" \in DOMAIN self.params /\ ~self.seen_expired
        /\ self.ret.queryset.filter # {} /\ "a" \notin DOMAIN self.params
        /\ SameResult(self.ret, self.prev)

\* C12: a parameter that is only in the stored bundle has the effect it has
\* when written in the query string, on the serializer list selects and on
\* the pagination bypass by `all` included: the response of list is paginated
\* and serialized as the merged parameters say.
C12_StoredParamsActLikeOwn ==
    \A v \in Views :
        LET self == views[v] IN
        self.response.kind = "Response" /\ self.ret.kind = "QuerySet" =>
            /\ self.paginated =
                  paginate_queryset(self.merged, self.paginator, self.ret.kind)
            /\ self.serializer = get_serializer_class(self.merged)

\* C13: the filter stage keeps a record iff it satisfies every include clause
\* and none of the exclude clauses; with -a=1 and -b=2 a record with a=1 and
\* b other than 2 is removed.
C13_ExcludesAreNegatedOneByOne ==
    \A v \in Views :
        LET self == views[v] IN
        self.pc = "order_by" /\ self.failed = "" /\ self.queryset.q = {} =>
            \A record \in Records :
                Keeps(self.queryset, record) <=>
                    /\ \A clause \in self.queryset.filter : Satisfies(record, clause)
                    /\ \A clause \in UNION self.queryset.exclude :
                          ~Satisfies(record, clause)

\* The parameters of a request that the filter stage reads as clauses.
ClauseKeys(self) == DOMAIN self.params \ reserved_query_params(self.paginator)

\* get_queryset returned a plan grouped as the request's group_by asks.
Grouped(self) ==
    /\ self.ret.kind = "QuerySet" /\ "group_by" \in DOMAIN self.params
    /\ self.ret.options.aggregates = True

\* C14 as claimed: with group_by the filter stage is bypassed: no clause and
\* no free-text predicate is applied to the grouped plan and Options.filters
\* stays None.
C14_GroupByBypassesFilters ==
    \A v \in Views :
        LET self == views[v] IN
        Grouped(self) =>
            /\ self.ret.queryset.filter = {} /\ self.ret.queryset.exclude = {}
            /\ self.ret.queryset.q = {}
            /\ self.ret.options.filters = None

\* C14 amended: with group_by the filter stage is not bypassed, it runs after
\* the grouping: the filter clauses and the free-text `filters` predicate of
\* the request are applied to the grouped plan and Options.filters becomes
\* true (false when the stage fails in silent mode); Options.filters stays
\* None only when the request has neither a clause nor a `filters` parameter.
C14_GroupByStillFilters ==
    \A v \in Views :
        LET self == views[v]
            plan == self.ret.queryset
        IN  Grouped(self) =>
               /\ plan.values = Split(self.params["group_by"])
               /\ self.ret.options.filters = None <=>
                     ClauseKeys(self) = {} /\ "filters" \notin DOMAIN self.params
               /\ self.ret.options.filters = True =>
                     /\ ClauseKeys(self) # {} => plan.filter # {} \/ plan.exclude # {}
                     /\ "filters" \in DOMAIN self.params =>
                           plan.q = {self.params["filters"]}

\* C14 witness: group_by=type with a clause on a compiles to a grouped plan
\* that carries the clause.
C14_Witness ==
    \E v \in Views :
        LET self == views[v] IN
        /\ Grouped(self) /\ "a" \in DOMAIN self.params
        /\ self.ret.queryset.values = <<"type">>
        /\ self.ret.queryset.filter # {} /\ self.ret.options.filters = True

\* The (function, field) pairs a request asks aggregates for.
RequestedPairs(self) ==
    {p \in AGGREGATES \X {"amount", "zz", "a", "b"} :
        p[1] \in DOMAIN self.params /\ p[2] \in Range(Split(self.params[p[1]]))}

\* The rows that satisfy every include clause of a plan and not all the
\* clauses of any exclude call.
FilteredRows(plan) ==
    {row \in Rows :
        /\ \A clause \in plan.filter : Satisfies(row, clause)
        /\ \A excludes \in plan.exclude : \E clause \in excludes : ~Satisfies(row, clause)}

C16_OneRowPerCombination ==
    \A v \in Views :
        LET self == views[v]
            plan == self.ret.queryset
            G == Range(Split(self.params["group_by"]))
            combinations == {Project(row, G) : row \in {r \in Rows : Keeps(plan, r)}}
        IN  Grouped(self) /\ plan.q = {} =>
               /\ \A out \in Execute(plan) :
                     /\ DOMAIN out.columns = G
                     /\ {a[1] : a \in out.aggregates} =
                            {p[2] \o "_" \o p[1] : p \in RequestedPairs(self)}
               /\ Cardinality(Execute(plan)) = Cardinality(combinations)

\* Whether a raw value is a boolean spelling, of the true or of the false
\* class, whatever its case.
IsBooleanSpelling(value) == Lower(value) \in TRUE_VALUES \cup FALSE_VALUES

\* C17 as claimed: whenever distinct is present a distinct is applied, bare
\* for a boolean spelling and on the columns of the value otherwise, and
\* Options.distinct becomes true.
C17_DistinctWheneverPresent ==
    \A v \in Views :
        LET self == views[v]
            value == Get(self.params, "distinct", "")
        IN  self.pc = "finish" /\ self.failed # "distinct"
                /\ "distinct" \in DOMAIN self.params =>
               /\ self.queryset.distinct /\ self.options.distinct = True
               /\ self.queryset.distinct_fields =
                     IF IsBooleanSpelling(value) THEN <<>> ELSE Split(value)

\* C17 amended: when distinct is present with a value that is not empty, a
\* bare distinct is applied if the value is any boolean spelling (true or
\* false class, whatever its case), which never fails, and otherwise a
\* distinct on the columns of the value split on ','; in both cases
\* Options.distinct becomes true.  An empty value applies no distinct and
\* leaves Options.distinct None.
C17_DistinctWhenNotEmpty ==
    \A v \in Views :
        LET self == views[v]
            value == Get(self.params, "distinct", "")
        IN  /\ self.pc = "finish" /\ self.failed # "distinct"
                  /\ "distinct" \in DOMAIN self.params =>
                 IF value = ""
                 THEN self.queryset = self.pre /\ self.options.distinct = None
                 ELSE /\ self.queryset.distinct /\ self.options.distinct = True
                      /\ self.queryset.distinct_fields =
                            IF IsBooleanSpelling(value) THEN <<>> ELSE Split(value)
            /\ self.failed = "distinct" => ~IsBooleanSpelling(value)

\* C17 witness: distinct=False applies a bare distinct.
C17_Witness ==
    \E v \in Views :
        LET self == views[v] IN
        /\ self.pc = "finish" /\ Get(self.params, "distinct", "") = "False"
        /\ self.queryset.distinct /\ self.queryset.distinct_fields = <<>>
        /\ self.options.distinct = True

\* C18: every queryable plan that get_queryset returns on a view that has a
\* paginator is ordered: by its own ordering when the request gave one that
\* applied, else by its values columns when it has them, else by the primary
\* key.
C18_PaginatedPlanIsOrdered ==
    \A v \in Views :
        LET self == views[v]
            plan == self.ret.queryset
        IN  self.ret.kind = "QuerySet" /\ self.paginator =>
               /\ Ordered(plan)
               /\ self.ret.options.order_by # True =>
                     plan.order_by = IF plan.values # <<>>
                                     THEN plan.values ELSE <<PkName>>

\* C19: on a view whose base collection is no QuerySet, a call of
\* get_queryset or of list ends in one step, whatever the parameters are: it
\* returns the base collection, leaves the cache as it is, runs no stage,
\* attaches no Options record to the paginator, and list answers with the
\* payload, not paginated.
C19_PassThrough ==
    [][\A v \in Views :
          (/\ views[v].base # "QuerySet" /\ views[v].pc = "idle"
           /\ views'[v] # views[v] /\ views'[v].ret # NoResult) =>
             LET self == views'[v] IN
             /\ cache' = cache /\ history' = history
             /\ self.pc = "idle" /\ self.call = "none"
             /\ self.ret = Result("payload", BaseQuerySet, {}, InitOptions, <<>>)
             /\ self.trace = <<>> /\ self.seen = NoSeen
             /\ ~self.attached /\ self.additional_data = InitOptions
             /\ self.response \in {NoResult, [self.ret EXCEPT !.kind = "Response"]}
             /\ ~self.paginated]_vars

\* C19 witness: list on a payload view whose request carries a token and a
\* parameter has answered with the payload.
C19_Witness ==
    \E v \in Views :
        LET self == views[v] IN
        /\ self.base = "payload" /\ self.paginator
        /\ DOMAIN self.params = {"cache", "a"}
        /\ self.response = Result("Response", BaseQuerySet, {}, InitOptions, <<>>)
        /\ self.ret.kind = "payload" /\ ~self.paginated

\* C20: of a cache resolution, the shareable URL carries the token and, of
\* the merged parameters, reserved keys only; the plain URL carries every
\* merged parameter and not the token.
C20_PlainUrlBypassesCache ==
    \A v \in Views :
        LET self == views[v]
            options == self.ret.options
        IN  options.cached =>
               /\ "cache" \in DOMAIN options.cache_url
               /\ DOMAIN options.cache_url \ {"cache"} \subseteq
                     DOMAIN self.merged \cap ReservedKeys
               /\ \A key \in DOMAIN self.merged :
                     /\ key \in DOMAIN options.raw_url
                     /\ options.raw_url[key] = self.merged[key]
               /\ "cache" \notin DOMAIN options.raw_url

\* What a flag of Options must be by the claim: None when the stage was not
\* attempted, else True or False.
Truthful(flag, attempted, applied, silent) ==
    /\ flag = None <=> ~attempted
    /\ flag = True => applied
    /\ flag = False => silent

\* C21: in the Options of every compilation that returns a plan, each of
\* filters, order_by, distinct and aggregates is None iff its stage was not
\* attempted, True iff it was attempted and succeeded, an empty result set in
\* the ordering counting as a success, and False iff it was attempted and
\* failed, which happens in silent mode only.
C21_FlagsAreTruthful ==
    \A v \in Views :
        LET self == views[v]
            plan == self.ret.queryset
            options == self.ret.options
            order_by == Get(self.params, "order_by", "")
            distinct == Get(self.params, "distinct", "")
        IN  self.ret.kind = "QuerySet" =>
               /\ Truthful(options.order_by, order_by # "",
                           plan.order_by = Split(order_by) \/ self.empty,
                           AsksSilent(self))
               /\ Truthful(options.distinct, distinct # "",
                           plan.distinct, AsksSilent(self))
               /\ Truthful(options.filters,
                           ClauseKeys(self) # {} \/ Get(self.params, "filters", "") # "",
                           plan.filter # {} \/ plan.exclude # {} \/ plan.q # {},
                           AsksSilent(self))
               /\ Truthful(options.aggregates,
                           Get(self.params, "group_by", "") # ""
                              \/ Aggregations(self.params) # {},
                           plan.values # <<>>, AsksSilent(self))

\* C22: a create or an update asked by a requester who is no superuser sets
\* neither is_superuser nor is_staff on the account it writes, and the groups
\* and user_permissions it gives the account are among those the requester
\* holds.
C22_NoRightsGranted ==
    [][LET last == accounts'.last
           user == RequestUser(last.requester)
           old == accounts.users[last.target]
           new == accounts'.users[last.target]
       IN  (/\ accounts'.users # accounts.users
            /\ last.action \in {"create", "update"} /\ ~last.raised
            /\ ~user.is_superuser) =>
              /\ new.is_superuser => old.is_superuser
              /\ new.is_staff => old.is_staff
              /\ new.groups \ old.groups \subseteq user.groups
              /\ new.user_permissions \ old.user_permissions \subseteq
                    user.user_permissions]_vars

\* C23: a decorated class is constructed at most once, and every call of
\* every thread returns the same instance.
C23_OneInstance ==
    /\ decorated.constructed <= 1
    /\ \A t, u \in Threads :
          \A i \in DOMAIN decorated.returned[t], j \in DOMAIN decorated.returned[u] :
              decorated.returned[t][i] = decorated.returned[u][j]

\* C24: the read, the merge and the write of a request are not atomic.  When
\* a request writes its token's entry, every parameter that another request
\* stored there after this request's read, and that this request does not
\* send itself, is gone from the entry: the update of the request that wrote
\* first is lost.
C24_LostUpdate ==
    [][\A w \in Views :
          LET t == views[w].cache_key IN
          (/\ views[w].pc = "cache_set" /\ views'[w] # views[w]
           /\ cache'[t] # cache[t]) =>
             \A k \in DOMAIN cache[t].value :
                 k \notin DOMAIN views[w].cache_params
                    /\ k \notin DOMAIN Incoming(views[w]) =>
                       k \notin DOMAIN cache'[t].value]_vars

\* C24 witness: two requests with the same token, a=1 and order_by=zz, both
\* read the empty entry; both have written, and the entry holds the
\* parameter of the second writer only.
C24_Witness ==
    \E v, w \in Views :
        /\ v # w /\ views[v].cache_key = "T1" /\ views[w].cache_key = "T1"
        /\ views[v].pc = "fields" /\ views[w].pc = "fields"
        /\ views[v].cache_params = EmptyBundle /\ views[w].cache_params = EmptyBundle
        /\ DOMAIN Incoming(views[v]) = {"a"} /\ DOMAIN Incoming(views[w]) = {"order_by"}
        /\ DOMAIN cache["T1"].value = {"order_by"}

\* A step of the model is the cache write of view w.
Writes(w) ==
    /\ views[w].pc = "cache_set" /\ views'[w] # views[w]
    /\ views[w].new_cache_params # EmptyBundle
    /\ IsInt(Get(views[w].url_params, "timeout", CacheTimeoutDefault))

C26_FailureKeepsCacheWrite ==
    LET first == views[1]
        second == views[2]
        stored == cache["T1"].value
    IN  first.ret.kind = "ValidationError" =>
           /\ second.pc \in {"unborn", "idle", "cache_get", "cache_set"}
                 /\ second.ret = NoResult /\ Live(cache["T1"]) =>
                    \A k \in DOMAIN Incoming(first) \ {"page", "page_size", "format"} :
                        k \in DOMAIN stored /\ stored[k] = Incoming(first)[k]
           /\ second.ret # NoResult /\ Incoming(second) = EmptyBundle /\ ~second.seen_expired =>
                    /\ second.ret.kind = "ValidationError"
                    /\ second.ret.tags = first.ret.tags

\* C26 witness: ?cache=T1&order_by=zz failed in the ordering stage, and the
\* following ?cache=T1 on a fresh view failed in the ordering stage too.
C26_Witness ==
    /\ views[1].ret.kind = "ValidationError" /\ views[1].ret.tags = <<"order_by">>
    /\ DOMAIN Incoming(views[1]) = {"order_by"}
    /\ Incoming(views[2]) = EmptyBundle
    /\ views[2].ret.kind = "ValidationError" /\ views[2].ret.tags = <<"order_by">>
    /\ ~views[2].seen_expired

\* A list request with a token has been answered from a queryset.
ListedWithToken(self) ==
    /\ self.response.kind = "Response" /\ self.ret.kind = "QuerySet"
    /\ self.serializer # "" /\ "cache" \in DOMAIN self.params

\* C27 as claimed: a successful list request with a token has run
\* get_queryset twice, each run reading and writing the token's entry, and
\* the second write stored the bundle of the first.
C27_TwoWritesOfOneBundle ==
    \A v \in Views :
        LET self == views[v] IN
        ListedWithToken(self) =>
           /\ self.prev.kind = "QuerySet"
           /\ self.prev.options.cached /\ self.ret.options.cached
           /\ self.prev.options.cache_data # EmptyBundle
           /\ self.ret.options.cache_data = self.prev.options.cache_data

\* C27 amended: a successful list request runs get_queryset twice (in list
\* and in the inherited list), so a request with a token reads the token's
\* entry twice, and writes it twice when the merged bundle holds a key that
\* is not a default reserved key (not at all otherwise).  The second write
\* stores the bundle of the first when no other request wrote in between and
\* the entry did not expire between the first write and the second read.
C27_TwoReadsSameBundleUnlessExpired ==
    \A v \in Views :
        LET self == views[v]
            first == self.prev.options.cache_data
            second == self.ret.options.cache_data
        IN  ListedWithToken(self) =>
               /\ self.prev.kind = "QuerySet"
               /\ self.prev.options.cached /\ self.ret.options.cached
               /\ first # EmptyBundle =>
                     DOMAIN first \cap {"page", "page_size", "format"} = {}
               /\ first = EmptyBundle =>
                     /\ second = EmptyBundle
                     /\ DOMAIN self.merged \subseteq {"page", "page_size", "format"}
               /\ ~self.seen_expired => second = first

\* C27 witness: a list request ?cache=T1&a=1 was answered after two runs of
\* get_queryset that both stored a=1.
C27_Witness ==
    \E v \in Views :
        LET self == views[v] IN
        /\ ListedWithToken(self) /\ DOMAIN Incoming(self) = {"a"}
        /\ self.prev.kind = "QuerySet" /\ ~self.seen_expired
        /\ DOMAIN self.prev.options.cache_data = {"a"}
        /\ self.ret.options.cache_data = self.prev.options.cache_data

\* The last n stages of a trace.
LastStages(trace, n) ==
    IF Len(trace) < n THEN <<>> ELSE SubSeq(trace, Len(trace) - n + 1, Len(trace))

\* A silent request for aggregates without group_by whose computation fails:
\* one of the aggregated columns is not a column of the model.
SilentAggregateFails(self) ==
    /\ AsksSilent(self) /\ self.base = "QuerySet"
    /\ "group_by" \notin DOMAIN self.params
    /\ \E p \in RequestedPairs(self) : p[2] \notin KnownFields

\* C28: with silent=true and aggregates without group_by, a failure of the
\* aggregate computation does not end compilation: Options.aggregates becomes
\* false, the filter stage runs a second time, on the collection the first run
\* filtered (which it leaves as it is), then the ordering and the distinct
\* stage, and get_queryset returns a collection, never a scalar map.
C28_AggregateFailureGoesOn ==
    \A v \in Views :
        LET self == views[v] IN
        SilentAggregateFails(self) =>
            /\ self.ret.kind \in {"unset", "QuerySet"}
            /\ self.ret.kind = "QuerySet" =>
                  /\ self.ret.options.aggregates = False
                  /\ self.ret.aggregates = {}
            /\ self.pc = "filters" =>
                  /\ LastStages(self.trace, 2) = <<"aggregates", "filters">>
                  /\ self.options.aggregates = False
                  /\ self.queryset =
                        DoFilter(self.url_params, self.paginator, TRUE,
                                 self.options, self.pre).queryset
            /\ self.pc = "order_by" =>
                  /\ LastStages(self.trace, 3) = <<"aggregates", "filters", "filters">>
                  /\ self.queryset = self.pre
                  /\ self.options.aggregates = False
            /\ self.pc = "finish" =>
                  LastStages(self.trace, 5) =
                      <<"aggregates", "filters", "filters", "order_by", "distinct">>

\* C28 witness: ?silent=true&sum=zz&a=1 returned a collection filtered on a,
\* with Options.aggregates false, after two runs of the filter stage.
C28_Witness ==
    \E v \in Views :
        LET self == views[v] IN
        /\ SilentAggregateFails(self) /\ "a" \in DOMAIN self.params
        /\ self.ret.kind = "QuerySet" /\ self.ret.options.aggregates = False
        /\ self.ret.options.filters = True /\ self.ret.queryset.filter # {}
        /\ LastStages(self.trace, 6) =
              <<"aggregates", "filters", "filters", "order_by", "distinct", "finish">>

\* A silent request for aggregates without group_by got its scalar map though
\* the filter stage failed.
SilentFilterFailed(self) ==
    /\ AsksSilent(self) /\ self.base = "QuerySet"
    /\ self.ret.kind = "dict" /\ self.ret.options.filters = False

\* The clause keys of a request whose raw value cannot be coerced.
Uncoerced(self) == {k \in ClauseKeys(self) : self.params[k] = "?"}

\* The request without the filters that fail: the clauses that cannot be
\* coerced and a `filters` expression that does not parse.
WithoutFailing(self) ==
    LET failing == Uncoerced(self) \cup
                      {k \in {"filters"} : Get(self.params, k, "") = "(("}
    IN  [k \in DOMAIN self.params \ failing |-> self.params[k]]

\* The scalar map of a request with these parameters, in silent mode.
MapOf(self, params) ==
    AggregateMap(DoFilter(params, self.paginator, TRUE, InitOptions,
                          BaseQuerySet).queryset,
                 Aggregations(params))

\* No clause and no free-text predicate is applied to a plan.
Unfiltered(plan) == plan.filter = {} /\ plan.exclude = {} /\ plan.q = {}

\* C29 as claimed: with silent=true and aggregates without group_by, a failed
\* filter stage leaves the scalar map computed over the unfiltered collection
\* and returned without any Options record: it is the map of the same request
\* without the failing filter.
C29_FilterFailureUnobservable ==
    \A v \in Views :
        LET self == views[v] IN
        SilentFilterFailed(self) =>
            /\ Unfiltered(self.ret.queryset)
            /\ ~self.attached
            /\ self.ret.aggregates = MapOf(self, WithoutFailing(self))

\* C29 amended: with silent=true and aggregates without group_by, a failed
\* filter stage is not reported: the scalar map is returned without any
\* Options record.  It is computed over the collection as the filter stage
\* left it when it failed: with no clause at all when a value could not be
\* coerced, the clauses that could be coerced being dropped too, and with
\* every clause applied when only the `filters` expression did not parse.
\* So the map is that of the same request without any filter in the first
\* case, and that of the same request without `filters` in the second.
C29_FilterFailureKeepsWhatWasApplied ==
    \A v \in Views :
        LET self == views[v]
            nothing == [k \in DOMAIN self.params \ (ClauseKeys(self) \cup {"filters"})
                           |-> self.params[k]]
        IN  SilentFilterFailed(self) =>
               /\ ~self.attached
               /\ Uncoerced(self) # {} =>
                     /\ Unfiltered(self.ret.queryset)
                     /\ self.ret.aggregates = MapOf(self, nothing)
               /\ Uncoerced(self) = {} =>
                     /\ Get(self.params, "filters", "") = "(("
                     /\ self.ret.queryset.q = {}
                     /\ ClauseKeys(self) # {} => ~Unfiltered(self.ret.queryset)
                     /\ self.ret.aggregates = MapOf(self, Pop(self.params, "filters"))

\* C29 witness: ?silent=true&sum=amount&a=1&-b=? returned the sum of every
\* row, not the sum of the rows where a is 1.
C29_Witness ==
    \E v \in Views :
        LET self == views[v] IN
        /\ SilentFilterFailed(self) /\ Uncoerced(self) = {"-b"}
        /\ Get(self.params, "a", "") = "1"
        /\ self.ret.aggregates = {<<"amount_sum", 60>>}
        /\ MapOf(self, WithoutFailing(self)) = {<<"amount_sum", 10>>}

====
